---- MODULE Spec2Model ----
(***************************************************************************)
(* PII redactor and input-anomaly classifier (app/utils.py) and the CSV    *)
(* path of the upload handler (app/main.py).                               *)
(*                                                                         *)
(* A Python str is a sequence of one-character strings; offsets into a     *)
(* text are 0-based as in Python (the character at offset i is t[i+1]).    *)
(* A Python value handed to a function is a record [kind, chars]: kind is  *)
(* "str", "none" or "int" and chars is what str(value) returns.            *)
(* The regular expressions are modelled by their backtracking semantics:   *)
(* every operator named after a pattern returns the end offset of the      *)
(* match the re module finds when the pattern is anchored at offset i, or  *)
(* -1 when there is none.  Characters are the code points 0..255.          *)
(***************************************************************************)
EXTENDS Integers, Sequences, FiniteSets, TLC

VARIABLES
    pc,        \* position of the caller: "call", then "redacted", "again" (redactor),
               \* "detected", "done", "raised" (classifier), "uploaded" (CSV path)
    text,      \* redact_text: the argument (a value)
    out,       \* redact_text(text)
    matches,   \* the Match objects MASTER.sub handed to repl, in order
    out2,      \* redact_text(out)
    name,      \* detect_anomalies / validators: the three submitted fields
    email,
    phone,
    emailOk,   \* is_valid_email(email)
    phoneOk,   \* is_valid_phone(phone)
    report,    \* detect_anomalies(name, email, phone)
    grid,      \* upload, CSV path: the fields of the file read
    outGrid    \* the fields of the file written

vars == <<pc, text, out, matches, out2, name, email, phone, emailOk, phoneOk,
          report, grid, outGrid>>

(***************************************************************************)
(* Characters                                                              *)
(***************************************************************************)
Digits == {"0", "1", "2", "3", "4", "5", "6", "7", "8", "9"}

LowerAlpha == {"a", "b", "c", "d", "e", "f", "g", "h", "i", "j", "k", "l", "m",
               "n", "o", "p", "q", "r", "s", "t", "u", "v", "w", "x", "y", "z"}

UpperAlpha == {"A", "B", "C", "D", "E", "F", "G", "H", "I", "J", "K", "L", "M",
               "N", "O", "P", "Q", "R", "S", "T", "U", "V", "W", "X", "Y", "Z"}

\* [a-zA-Z]
Alpha == LowerAlpha \cup UpperAlpha

\* The letters (str.isalpha) among the code points 128..255.
Latin1Alpha == {
    "ª", "µ", "º", "À", "Á", "Â", "Ã", "Ä", "Å", "Æ", "Ç", "È", "É", "Ê", "Ë", "Ì",
    "Í", "Î", "Ï", "Ð", "Ñ", "Ò", "Ó", "Ô", "Õ", "Ö", "Ø", "Ù", "Ú", "Û", "Ü", "Ý",
    "Þ", "ß", "à", "á", "â", "ã", "ä", "å", "æ", "ç", "è", "é", "ê", "ë", "ì", "í",
    "î", "ï", "ð", "ñ", "ò", "ó", "ô", "õ", "ö", "ø", "ù", "ú", "û", "ü", "ý", "þ",
    "ÿ" }

\* The code points 128..255 that are numeric and no letter: \w takes them,
\* \d does not.
Latin1Numeric == {"²", "³", "¹", "¼", "½", "¾"}

\* \w of a str pattern: alphanumeric or "_"
WordChars == Alpha \cup Digits \cup {"_"} \cup Latin1Alpha \cup Latin1Numeric

\* \s of a str pattern and the characters str.strip() removes (str.isspace):
\* space, \t, \n, \r, \f, \x0b, \x1c-\x1f, \x85, \xa0
Whitespace == {"\t", "\n", "", "\f", "\r", "", "", "", "", " ", "", " "}

\* [a-zA-Z0-9._%+-]
EmailLocalChars == Alpha \cup Digits \cup {".", "_", "%", "+", "-"}

\* [a-zA-Z0-9.-]
EmailDomainChars == Alpha \cup Digits \cup {".", "-"}

\* [ -]
CcSep == {" ", "-"}

\* [\s\-.]
PhoneSep == Whitespace \cup {"-", "."}

\* The character at 0-based offset i, "" outside the text.
At(t, i) == IF i >= 0 /\ i < Len(t) THEN t[i + 1] ELSE ""

IsDigit(t, i) == At(t, i) \in Digits

\* t[i:j]
Slice(t, i, j) == SubSeq(t, i + 1, j)

\* \b at offset i: exactly one of the two neighbours is a word character.
WordBoundary(t, i) == (At(t, i - 1) \in WordChars) # (At(t, i) \in WordChars)

\* Length of the longest run of characters of S that starts at offset i.
Run(S, t, i) ==
    IF i < 0 \/ i >= Len(t) THEN 0
    ELSE CHOOSE n \in 0..(Len(t) - i) :
            At(t, i + n) \notin S /\ \A k \in 0..(n - 1) : At(t, i + k) \in S

Max(S) == CHOOSE x \in S : \A y \in S : y <= x

Min2(a, b) == IF a < b THEN a ELSE b

\* The first entry of a sequence of end offsets that is a match, or -1.
RECURSIVE FirstEnd(_, _)
FirstEnd(ends, k) ==
    IF k > Len(ends) THEN -1
    ELSE IF ends[k] # -1 THEN ends[k]
    ELSE FirstEnd(ends, k + 1)

(***************************************************************************)
(* EMAIL_RE  \b[a-zA-Z0-9._%+-]+@[a-zA-Z0-9.-]+\.[a-zA-Z]{2,}\b            *)
(* Each greedy quantifier takes the longest run first and gives back one   *)
(* character at a time: the match is the one with the longest local part,  *)
(* then the longest domain, then the longest TLD that let the rest match.  *)
(***************************************************************************)
\* \.[a-zA-Z]{2,}\b at offset p
EmailTld(t, p) ==
    LET m  == Run(Alpha, t, p + 1)
        ns == {n \in 2..m : WordBoundary(t, p + 1 + n)}
    IN  IF At(t, p) = "." /\ ns # {} THEN p + 1 + Max(ns) ELSE -1

\* [a-zA-Z0-9.-]+\.[a-zA-Z]{2,}\b at offset p
EmailDomain(t, p) ==
    LET d  == Run(EmailDomainChars, t, p)
        ks == {k \in 1..d : EmailTld(t, p + k) # -1}
    IN  IF ks # {} THEN EmailTld(t, p + Max(ks)) ELSE -1

EMAIL_RE(t, i) ==
    LET l  == Run(EmailLocalChars, t, i)
        ls == {n \in 1..l : At(t, i + n) = "@" /\ EmailDomain(t, i + n + 1) # -1}
    IN  IF WordBoundary(t, i) /\ ls # {}
        THEN EmailDomain(t, i + Max(ls) + 1)
        ELSE -1

(***************************************************************************)
(* SSN_RE  \b\d{3}-\d{2}-\d{4}\b                                           *)
(***************************************************************************)
SSN_RE(t, i) ==
    IF /\ WordBoundary(t, i)
       /\ \A k \in {0, 1, 2, 4, 5, 7, 8, 9, 10} : IsDigit(t, i + k)
       /\ At(t, i + 3) = "-"
       /\ At(t, i + 6) = "-"
       /\ WordBoundary(t, i + 11)
    THEN i + 11
    ELSE -1

(***************************************************************************)
(* DOB_RE: four alternatives of ten characters between two \b.             *)
(***************************************************************************)
\* (19\d{2}|20\d{2})
DobYear(t, i) ==
    /\ \/ At(t, i) = "1" /\ At(t, i + 1) = "9"
       \/ At(t, i) = "2" /\ At(t, i + 1) = "0"
    /\ IsDigit(t, i + 2)
    /\ IsDigit(t, i + 3)

\* (0[1-9]|1[0-2])
DobMonth(t, i) ==
    \/ At(t, i) = "0" /\ At(t, i + 1) \in Digits \ {"0"}
    \/ At(t, i) = "1" /\ At(t, i + 1) \in {"0", "1", "2"}

\* (0[1-9]|[12]\d|3[01])
DobDay(t, i) ==
    \/ At(t, i) = "0" /\ At(t, i + 1) \in Digits \ {"0"}
    \/ At(t, i) \in {"1", "2"} /\ IsDigit(t, i + 1)
    \/ At(t, i) = "3" /\ At(t, i + 1) \in {"0", "1"}

DOB_RE(t, i) ==
    IF /\ WordBoundary(t, i)
       /\ \/ /\ DobYear(t, i) /\ At(t, i + 4) = "-"
             /\ DobMonth(t, i + 5) /\ At(t, i + 7) = "-" /\ DobDay(t, i + 8)
          \/ /\ DobDay(t, i) /\ At(t, i + 2) = "-"
             /\ DobMonth(t, i + 3) /\ At(t, i + 5) = "-" /\ DobYear(t, i + 6)
          \/ /\ DobMonth(t, i) /\ At(t, i + 2) = "/"
             /\ DobDay(t, i + 3) /\ At(t, i + 5) = "/" /\ DobYear(t, i + 6)
          \/ /\ DobDay(t, i) /\ At(t, i + 2) = "/"
             /\ DobMonth(t, i + 3) /\ At(t, i + 5) = "/" /\ DobYear(t, i + 6)
       /\ WordBoundary(t, i + 10)
    THEN i + 10
    ELSE -1

(***************************************************************************)
(* Iterations of (?:\d[sep]?): a digit, then a separator when one follows. *)
(* IterPath(sep, t, p, max)[k] is the offset after k iterations in which   *)
(* every separator present was taken (declining a separator that is there  *)
(* leaves the next iteration without a digit); the path stops after max    *)
(* iterations or where no digit follows.                                   *)
(***************************************************************************)
RECURSIVE IterPath(_, _, _, _)
IterPath(sep, t, p, max) ==
    IF max = 0 \/ ~IsDigit(t, p) THEN <<>>
    ELSE LET q == IF At(t, p + 1) \in sep THEN p + 2 ELSE p + 1
         IN  <<q>> \o IterPath(sep, t, q, max - 1)

\* The offset after n iterations when the last one declines its separator.
IterNoSep(path, p, n) == (IF n = 1 THEN p ELSE path[n - 1]) + 1

(***************************************************************************)
(* CC_RE_FLEX  \b(?:\d[ -]?){13,19}\b                                      *)
(* Greedy: the most iterations first, and within an iteration count the    *)
(* last separator taken before it is declined.                             *)
(***************************************************************************)
CcMinDigits == 13
CcMaxDigits == 19

CC_RE_FLEX(t, i) ==
    LET path == IterPath(CcSep, t, i, CcMaxDigits)
        ok   == {n \in CcMinDigits..Len(path) :
                    WordBoundary(t, path[n]) \/ WordBoundary(t, IterNoSep(path, i, n))}
        n    == Max(ok)
    IN  IF WordBoundary(t, i) /\ ok # {}
        THEN IF WordBoundary(t, path[n]) THEN path[n] ELSE IterNoSep(path, i, n)
        ELSE -1

(***************************************************************************)
(* PHONE_RE                                                                *)
(*   (?<!\d) (?:\+?\d{1,3}[\s\-.]?)? (?:\(?\d{2,4}\)?[\s\-.]?)?            *)
(*   (?:\d[\s\-.]?){6,14}\d (?!\d)                                         *)
(***************************************************************************)
PhoneMinIter == 6
PhoneMaxIter == 14

\* PhoneMain with the repetition written {5,14}: one digit too few.
PhoneMainFiveIter(t, p) ==
    LET path == IterPath(PhoneSep, t, p, PhoneMaxIter)
        tail(q) == IsDigit(t, q) /\ ~IsDigit(t, q + 1)
        ok   == {n \in (PhoneMinIter - 1)..Len(path) :
                    tail(path[n]) \/ tail(IterNoSep(path, p, n))}
        n    == Max(ok)
    IN  IF ok # {}
        THEN IF tail(path[n]) THEN path[n] + 1 ELSE IterNoSep(path, p, n) + 1
        ELSE -1

\* (?:\d[\s\-.]?){6,14}\d(?!\d) at offset p
PhoneMain(t, p) ==
    LET path == IterPath(PhoneSep, t, p, PhoneMaxIter)
        tail(q) == IsDigit(t, q) /\ ~IsDigit(t, q + 1)
        ok   == {n \in PhoneMinIter..Len(path) :
                    tail(path[n]) \/ tail(IterNoSep(path, p, n))}
        n    == Max(ok)
    IN  IF ok # {}
        THEN IF tail(path[n]) THEN path[n] + 1 ELSE IterNoSep(path, p, n) + 1
        ELSE -1

\* The offsets an optional trailing [\s\-.]? can end at, in the order tried.
PhoneSepOpt(t, e) == IF At(t, e) \in PhoneSep THEN <<e + 1, e>> ELSE <<e>>

\* \d{lo,hi} then the rest, longest digit run first: the offsets after
\* (digits)(rest) in the order the matcher tries them.
RECURSIVE PhoneDigitsThen(_, _, _, _, _)
PhoneDigitsThen(t, p, d, lo, paren) ==
    IF d < lo THEN <<>>
    ELSE LET e == p + d
             here == IF paren /\ At(t, e) = ")"
                     THEN PhoneSepOpt(t, e + 1) \o <<e>>
                     ELSE PhoneSepOpt(t, e)
         IN  here \o PhoneDigitsThen(t, p, d - 1, lo, paren)

\* (?:\+?\d{1,3}[\s\-.]?)? at offset i: the offsets it can end at, in the
\* order tried; the group matching nothing comes last.
PhoneCountry(t, i) ==
    LET p == IF At(t, i) = "+" THEN i + 1 ELSE i
        d == Min2(3, Run(Digits, t, p))
    IN  PhoneDigitsThen(t, p, d, 1, FALSE) \o <<i>>

\* (?:\(?\d{2,4}\)?[\s\-.]?)? at offset p
PhoneArea(t, p) ==
    LET s == IF At(t, p) = "(" THEN p + 1 ELSE p
        d == Min2(4, Run(Digits, t, s))
    IN  PhoneDigitsThen(t, s, d, 2, TRUE) \o <<p>>

\* The second group and the rest of the pattern at offset p.
PhoneAfterCountry(t, p) ==
    LET qs == PhoneArea(t, p)
    IN  FirstEnd([k \in 1..Len(qs) |-> PhoneMain(t, qs[k])], 1)

PHONE_RE(t, i) ==
    IF IsDigit(t, i - 1) THEN -1
    ELSE LET ps == PhoneCountry(t, i)
         IN  FirstEnd([k \in 1..Len(ps) |-> PhoneAfterCountry(t, ps[k])], 1)

(***************************************************************************)
(* MASTER: the five patterns as named alternatives, tried in this order at *)
(* each offset; the first that matches there is the match.                 *)
(***************************************************************************)
Categories == <<"email", "ssn", "dob", "cc", "phone">>

\* One category's pattern anchored at offset i.
CategoryEnd(cat, t, i) ==
    CASE cat = "email" -> EMAIL_RE(t, i)
      [] cat = "ssn"   -> SSN_RE(t, i)
      [] cat = "dob"   -> DOB_RE(t, i)
      [] cat = "cc"    -> CC_RE_FLEX(t, i)
      [] cat = "phone" -> PHONE_RE(t, i)

NoMatch == [cat |-> "none", end |-> -1]

RECURSIVE MasterFrom(_, _, _)
MasterFrom(t, i, k) ==
    IF k > Len(Categories) THEN NoMatch
    ELSE LET e == CategoryEnd(Categories[k], t, i)
         IN  IF e # -1 THEN [cat |-> Categories[k], end |-> e]
             ELSE MasterFrom(t, i, k + 1)

MASTER(t, i) == MasterFrom(t, i, 1)

(***************************************************************************)
(* redact_text                                                             *)
(***************************************************************************)
REDACTED_EMAIL ==
    <<"[", "R", "E", "D", "A", "C", "T", "E", "D", "_", "E", "M", "A", "I", "L", "]">>

REDACTED_PHONE ==
    <<"[", "R", "E", "D", "A", "C", "T", "E", "D", "_", "P", "H", "O", "N", "E", "]">>

\* repl with the detect-only categories masked as phone numbers are.
repl_mask_detect_only(cat, s) ==
    IF cat = "email" THEN REDACTED_EMAIL
    ELSE IF cat \in {"ssn", "dob", "cc", "phone"} THEN REDACTED_PHONE
    ELSE s

\* repl(m): the replacement of a match of category cat whose text is s.
repl(cat, s) ==
    IF cat = "email" THEN REDACTED_EMAIL
    ELSE IF cat \in {"ssn", "dob", "cc"} THEN s
    ELSE IF cat = "phone" THEN REDACTED_PHONE
    ELSE s

\* MASTER.sub(repl, t) from offset i: leftmost match, replaced, and the scan
\* resumes at its end; a character no match starts at is copied.
RECURSIVE MasterSub(_, _)
MasterSub(t, i) ==
    IF i >= Len(t) THEN <<>>
    ELSE LET m == MASTER(t, i)
         IN  IF m.end # -1
             THEN repl(m.cat, Slice(t, i, m.end)) \o MasterSub(t, m.end)
             ELSE <<t[i + 1]>> \o MasterSub(t, i + 1)

\* The matches MASTER.sub hands to repl, in order.
RECURSIVE MasterMatches(_, _)
MasterMatches(t, i) ==
    IF i >= Len(t) THEN <<>>
    ELSE LET m == MASTER(t, i)
         IN  IF m.end # -1
             THEN <<[start |-> i, end |-> m.end, cat |-> m.cat]>>
                      \o MasterMatches(t, m.end)
             ELSE MasterMatches(t, i + 1)

\* A str value, None, and an int whose decimal digits are ds.
Str(s) == [kind |-> "str", chars |-> s]
NoneVal == [kind |-> "none", chars |-> <<"N", "o", "n", "e">>]
IntVal(ds) == [kind |-> "int", chars |-> ds]

\* isinstance(v, str) or str(v): both leave the characters of str(v).
redact_text(v) == MasterSub(v.chars, 0)

(***************************************************************************)
(* Inputs of the redactor: texts made of at most MaxFrags fragments.       *)
(***************************************************************************)
MaxFrags == 3

Fragments == <<
    <<"(", "4", "1", "5", ")">>,
    <<"5", "5", "5", "1", "2", "3", "4">>,
    <<"x", "@", "y", ".", "c", "o", "m">>,
    <<"+">>,
    <<"1", "2", "3", "-", "4", "5", "-", "6", "7", "8", "9">>,
    <<" ">>,
    <<"1", "9", "9", "0", "-", "0", "1", "-", "0", "1">>,
    <<"1", "2", "3", "4", "5", "6">>,
    <<"9", "8", "7", "6", "5", "4", "3", "2", "1">>,
    <<"a">>,
    <<"-">>,
    <<"+", "1", "2", "3", " ", "(", "1", "2", "3", "4", ")", " ">>,
    <<"1", "-", "1", "-", "1", "-", "1", "-", "1", "-", "1", "-", "1", "-", "1",
      "-", "1", "-", "1", "-", "1", "-", "1", "-", "1", "-", "1", "-", "1">>,
    <<"1", "2", "/", "3", "1", "/", "1", "9", "9", "9">>,
    <<"\r">>
>>

RECURSIVE Concat(_, _)
Concat(fs, k) == IF k > Len(fs) THEN <<>> ELSE Fragments[fs[k]] \o Concat(fs, k + 1)

Texts == {Concat(fs, 1) : fs \in UNION {[1..n -> 1..Len(Fragments)] : n \in 0..MaxFrags}}

RedactInputs == {Str(t) : t \in Texts} \cup {NoneVal, IntVal(Fragments[2])}

NoReport == [raised |-> FALSE, has_anomaly |-> FALSE, anomaly_details |-> <<>>]

(***************************************************************************)
(* The redactor called on a text, and called again on its own output.      *)
(***************************************************************************)
Init ==
    /\ pc = "call"
    /\ text \in RedactInputs
    /\ out = <<>>
    /\ matches = <<>>
    /\ out2 = <<>>
    /\ name = NoneVal
    /\ email = NoneVal
    /\ phone = NoneVal
    /\ emailOk = FALSE
    /\ phoneOk = FALSE
    /\ report = NoReport
    /\ grid = <<>>
    /\ outGrid = <<>>

RedactText ==
    /\ pc = "call"
    /\ out' = redact_text(text)
    /\ matches' = MasterMatches(text.chars, 0)
    /\ pc' = "redacted"
    /\ UNCHANGED <<text, out2, name, email, phone, emailOk, phoneOk, report, grid, outGrid>>

RedactAgain ==
    /\ pc = "redacted"
    /\ out2' = redact_text(Str(out))
    /\ pc' = "again"
    /\ UNCHANGED <<text, out, matches, name, email, phone, emailOk, phoneOk, report,
                   grid, outGrid>>

Next == RedactText \/ RedactAgain

Spec == Init /\ [][Next]_vars

(***************************************************************************)
(* Anomaly classifier                                                      *)
(***************************************************************************)
\* int(c) of a digit character
DigitValue(c) ==
    CASE c = "0" -> 0 [] c = "1" -> 1 [] c = "2" -> 2 [] c = "3" -> 3 [] c = "4" -> 4
      [] c = "5" -> 5 [] c = "6" -> 6 [] c = "7" -> 7 [] c = "8" -> 8 [] c = "9" -> 9

\* re.sub(r"\D", "", s)
RECURSIVE ExtractDigits(_)
ExtractDigits(s) ==
    IF s = <<>> THEN <<>>
    ELSE (IF Head(s) \in Digits THEN <<Head(s)>> ELSE <<>>) \o ExtractDigits(Tail(s))

\* set(s)
CharSet(s) == {s[k] : k \in DOMAIN s}

SequentialMinLen == 4

\* is_sequential without the descending test.
is_sequential_ascending(digits) ==
    IF Len(digits) < SequentialMinLen THEN FALSE
    ELSE \A k \in 2..Len(digits) :
            DigitValue(digits[k]) = DigitValue(digits[k - 1]) + 1

is_sequential(digits) ==
    IF Len(digits) < SequentialMinLen THEN FALSE
    ELSE LET ascending  == \A k \in 2..Len(digits) :
                              DigitValue(digits[k]) = DigitValue(digits[k - 1]) + 1
             descending == \A k \in 2..Len(digits) :
                              DigitValue(digits[k]) = DigitValue(digits[k - 1]) - 1
         IN  ascending \/ descending

\* The character c repeated n times.
Repeat(c, n) == [k \in 1..n |-> c]

invalid_patterns ==
    {Repeat(c, 10) : c \in Digits}
        \cup {<<"1", "2", "3", "4", "5", "6", "7", "8", "9", "0">>,
              <<"0", "9", "8", "7", "6", "5", "4", "3", "2", "1">>}

PhoneMinDigits == 7
PhoneMaxDigits == 15

is_valid_phone(v) ==
    IF v.kind # "str" THEN FALSE
    ELSE LET digits == ExtractDigits(v.chars)
         IN  IF ~(PhoneMinDigits <= Len(digits) /\ Len(digits) <= PhoneMaxDigits) THEN FALSE
             ELSE IF Cardinality(CharSet(digits)) = 1 THEN FALSE
             ELSE IF is_sequential(digits) THEN FALSE
             ELSE IF digits \in invalid_patterns THEN FALSE
             ELSE TRUE

\* c.lower()
LowerChar(c) ==
    CASE c = "A" -> "a" [] c = "B" -> "b" [] c = "C" -> "c" [] c = "D" -> "d"
      [] c = "E" -> "e" [] c = "F" -> "f" [] c = "G" -> "g" [] c = "H" -> "h"
      [] c = "I" -> "i" [] c = "J" -> "j" [] c = "K" -> "k" [] c = "L" -> "l"
      [] c = "M" -> "m" [] c = "N" -> "n" [] c = "O" -> "o" [] c = "P" -> "p"
      [] c = "Q" -> "q" [] c = "R" -> "r" [] c = "S" -> "s" [] c = "T" -> "t"
      [] c = "U" -> "u" [] c = "V" -> "v" [] c = "W" -> "w" [] c = "X" -> "x"
      [] c = "Y" -> "y" [] c = "Z" -> "z"
      [] c = "À" -> "à" [] c = "Á" -> "á" [] c = "Â" -> "â" [] c = "Ã" -> "ã"
      [] c = "Ä" -> "ä" [] c = "Å" -> "å" [] c = "Æ" -> "æ" [] c = "Ç" -> "ç"
      [] c = "È" -> "è" [] c = "É" -> "é" [] c = "Ê" -> "ê" [] c = "Ë" -> "ë"
      [] c = "Ì" -> "ì" [] c = "Í" -> "í" [] c = "Î" -> "î" [] c = "Ï" -> "ï"
      [] c = "Ð" -> "ð" [] c = "Ñ" -> "ñ" [] c = "Ò" -> "ò" [] c = "Ó" -> "ó"
      [] c = "Ô" -> "ô" [] c = "Õ" -> "õ" [] c = "Ö" -> "ö" [] c = "Ø" -> "ø"
      [] c = "Ù" -> "ù" [] c = "Ú" -> "ú" [] c = "Û" -> "û" [] c = "Ü" -> "ü"
      [] c = "Ý" -> "ý" [] c = "Þ" -> "þ"
      [] OTHER -> c

\* s.lower()
Lower(s) == [k \in DOMAIN s |-> LowerChar(s[k])]

\* s.strip()
RECURSIVE LStrip(_)
LStrip(s) == IF s # <<>> /\ Head(s) \in Whitespace THEN LStrip(Tail(s)) ELSE s

RECURSIVE RStrip(_)
RStrip(s) ==
    IF s # <<>> /\ s[Len(s)] \in Whitespace THEN RStrip(SubSeq(s, 1, Len(s) - 1)) ELSE s

Strip(s) == RStrip(LStrip(s))

\* s.replace(c, "")
RECURSIVE Remove(_, _)
Remove(s, c) ==
    IF s = <<>> THEN <<>>
    ELSE (IF Head(s) = c THEN <<>> ELSE <<Head(s)>>) \o Remove(Tail(s), c)

\* The 0-based offset of the last occurrence of c in s, -1 when there is none.
LastIndex(s, c) ==
    LET at == {k \in 0..(Len(s) - 1) : s[k + 1] = c}
    IN  IF at = {} THEN -1 ELSE Max(at)

suspicious_patterns == {
    <<"t", "e", "s", "t", "@", "t", "e", "s", "t", ".", "c", "o", "m">>,
    <<"a", "d", "m", "i", "n", "@", "a", "d", "m", "i", "n", ".", "c", "o", "m">>,
    <<"u", "s", "e", "r", "@", "u", "s", "e", "r", ".", "c", "o", "m">>,
    <<"e", "x", "a", "m", "p", "l", "e", "@", "e", "x", "a", "m", "p", "l", "e", ".", "c", "o", "m">>,
    <<"f", "a", "k", "e", "@", "f", "a", "k", "e", ".", "c", "o", "m">>,
    <<"d", "u", "m", "m", "y", "@", "d", "u", "m", "m", "y", ".", "c", "o", "m">> }

LocalMaxLen == 64
DomainMaxLen == 255

is_valid_email(v) ==
    IF v.kind # "str" THEN FALSE
    \* EMAIL_RE.match: anchored at offset 0, the match may end anywhere
    ELSE IF EMAIL_RE(v.chars, 0) = -1 THEN FALSE
    ELSE LET s      == v.chars
             at     == LastIndex(s, "@")
             \* email.rsplit('@', 1)
             local  == Slice(s, 0, at)
             domain == Slice(s, at + 1, Len(s))
             dot    == LastIndex(domain, ".")
             \* domain.split('.')
             nparts == Cardinality({k \in DOMAIN domain : domain[k] = "."}) + 1
             tld    == Slice(domain, dot + 1, Len(domain))
             bare   == Remove(Remove(Remove(local, "."), "_"), "-")
         IN  IF at = -1 THEN FALSE
             ELSE IF Len(local) = 0 \/ Len(local) > LocalMaxLen THEN FALSE
             ELSE IF Len(domain) = 0 \/ Len(domain) > DomainMaxLen THEN FALSE
             ELSE IF Lower(s) \in suspicious_patterns THEN FALSE
             ELSE IF Cardinality(CharSet(bare)) <= 2 /\ Len(local) > 3 THEN FALSE
             ELSE IF nparts < 2 THEN FALSE
             \* tld.isalpha() is false of the empty string
             ELSE IF Len(tld) < 2 \/ ~(\A k \in DOMAIN tld : tld[k] \in Alpha \cup Latin1Alpha)
                  THEN FALSE
             ELSE TRUE

suspicious_names == {
    <<"t", "e", "s", "t">>, <<"a", "d", "m", "i", "n">>, <<"u", "s", "e", "r">>,
    <<"d", "u", "m", "m", "y">>, <<"f", "a", "k", "e">>,
    <<"e", "x", "a", "m", "p", "l", "e">> }

\* not v
Falsy(v) ==
    \/ v.kind = "none"
    \/ v.kind = "str" /\ v.chars = <<>>
    \/ v.kind = "int" /\ v.chars = <<"0">>

Anomaly(field, value, issue) == [field |-> field, value |-> value, issue |-> issue]

NameMinLen == 2

\* detect_anomalies with the phone check under an elif: skipped once the
\* email check has failed.
detect_anomalies_elif(n, e, p) ==
    LET f1 == ~is_valid_email(e)
        f2 == ~f1 /\ ~is_valid_phone(p)
        f3 == Falsy(n) \/ Len(Strip(n.chars)) < NameMinLen
        f4 == Strip(Lower(n.chars)) \in suspicious_names
        a1 == IF f1 THEN <<Anomaly("email", e, "Invalid or suspicious email format")>>
              ELSE <<>>
        a2 == IF f2 THEN <<Anomaly("phone", p, "Invalid or suspicious phone format")>>
              ELSE <<>>
        a3 == IF f3 THEN <<Anomaly("name", n, "Name too short or empty")>> ELSE <<>>
        a4 == IF f4 THEN <<Anomaly("name", n, "Suspicious test/dummy name detected")>>
              ELSE <<>>
    IN  IF n.kind # "str"
        THEN [raised |-> TRUE, has_anomaly |-> FALSE, anomaly_details |-> <<>>]
        ELSE [raised |-> FALSE,
              has_anomaly |-> f1 \/ f2 \/ f3 \/ f4,
              anomaly_details |-> a1 \o a2 \o a3 \o a4]

\* The entries appended by the four checks, in the order of the code.  The
\* name checks call name.strip() and name.lower(): on a value that is no str
\* they raise AttributeError, which detect_anomalies does not catch.
detect_anomalies(n, e, p) ==
    LET f1 == ~is_valid_email(e)
        f2 == ~is_valid_phone(p)
        \* not name or len(name.strip()) < 2
        f3 == Falsy(n) \/ Len(Strip(n.chars)) < NameMinLen
        \* name.lower().strip() in suspicious_names
        f4 == Strip(Lower(n.chars)) \in suspicious_names
        a1 == IF f1 THEN <<Anomaly("email", e, "Invalid or suspicious email format")>>
              ELSE <<>>
        a2 == IF f2 THEN <<Anomaly("phone", p, "Invalid or suspicious phone format")>>
              ELSE <<>>
        a3 == IF f3 THEN <<Anomaly("name", n, "Name too short or empty")>> ELSE <<>>
        a4 == IF f4 THEN <<Anomaly("name", n, "Suspicious test/dummy name detected")>>
              ELSE <<>>
    IN  IF n.kind # "str"
        THEN [raised |-> TRUE, has_anomaly |-> FALSE, anomaly_details |-> <<>>]
        ELSE [raised |-> FALSE,
              \* has_anomaly is set in each of the four branches
              has_anomaly |-> f1 \/ f2 \/ f3 \/ f4,
              anomaly_details |-> a1 \o a2 \o a3 \o a4]

(***************************************************************************)
(* upload, lines 62-75: detect_anomalies(name, email, phone), then the two *)
(* validators for the metadata.  An exception of detect_anomalies ends the *)
(* request.                                                                *)
(***************************************************************************)
\* The longest run of one digit, and the longest phone, among the inputs.
MaxPhoneLen == 16

\* A local part of n characters with three distinct characters.
LongLocal(n) == [k \in 1..n |-> <<"a", "b", "c">>[(k % 3) + 1]]

\* A domain of n characters: one long label and the TLD "co".
LongDomain(n) == Repeat("d", n - 3) \o <<".", "c", "o">>

EmailLocals == {
    <<"a">>, <<"a", "b", "c">>, <<"a", "a", "a", "a">>, <<"a", "b", "a", "b">>,
    <<"a", ".", "b", "_", "c">>, <<"j", "a", "n", "e", ".", "d", "o", "e">>,
    <<"a", "d", "m", "i", "n">>, <<"A", "d", "m", "i", "n">>, <<"t", "e", "s", "t">>,
    LongLocal(LocalMaxLen), LongLocal(LocalMaxLen + 1) }

EmailDomains == {
    <<"d", ".", "c", "o", "m">>,
    <<"e", "x", "a", "m", "p", "l", "e", ".", "o", "r", "g">>,
    <<"a", "d", "m", "i", "n", ".", "c", "o", "m">>,
    <<"t", "e", "s", "t", ".", "c", "o", "m">>,
    <<"b">>, <<"b", ".", "c">>, <<"b", ".", "c", "0", "m">>,
    <<"b", ".", "c", "o", ".", "u", "k">>,
    LongDomain(DomainMaxLen), LongDomain(DomainMaxLen + 1) }

EmailSuffixes == {
    <<>>,
    <<"!", "x", ".", "o", "r", "g">>,
    <<" ", "@", "e", ".", "o", "r", "g">>,
    <<"\n">> }

EmailInputs ==
    {Str(l \o <<"@">> \o d \o x) : l \in EmailLocals, d \in EmailDomains, x \in EmailSuffixes}
        \cup {Str(<<>>), NoneVal}

\* start, start+1, ... (n digits) and start, start-1, ...
DigitChars == <<"0", "1", "2", "3", "4", "5", "6", "7", "8", "9">>
AscRun(start, n) == [k \in 1..n |-> DigitChars[start + k]]
DescRun(start, n) == [k \in 1..n |-> DigitChars[start - k + 2]]

PhoneDigitInputs ==
    {Repeat(c, n) : c \in {"0", "1", "9"}, n \in 0..MaxPhoneLen}
        \cup {Repeat("5", n) \o <<"2">> : n \in 0..(MaxPhoneLen - 1)}
        \cup UNION {{AscRun(a, n) : n \in 1..(10 - a)} : a \in 0..9}
        \cup UNION {{DescRun(a, n) : n \in 1..(a + 1)} : a \in 0..9}
        \cup {AscRun(1, 9) \o <<"0">>, <<"0">> \o DescRun(9, 9),
              AscRun(0, 10) \o <<"0">>, AscRun(1, 7) \o <<"7">>,
              <<"4", "1", "5", "5", "5", "5", "2", "6", "7", "1">>}

\* A digit string as submitted: bare, or with a "+", "-" and " " written in.
Decorations == {"bare", "dashed", "plus"}
Decorate(how, ds) ==
    CASE how = "bare"   -> ds
      [] how = "dashed" -> LET h == Min2(3, Len(ds))
                           IN  SubSeq(ds, 1, h) \o <<"-">> \o SubSeq(ds, h + 1, Len(ds))
                                   \o <<" ">>
      [] how = "plus"   -> <<"+">> \o ds \o <<"x">>

PhoneInputs ==
    {Str(Decorate(how, ds)) : how \in Decorations,
                              ds \in PhoneDigitInputs}
        \cup {NoneVal}

NameInputs == {
    Str(<<"T", "e", "s", "t">>), Str(<<"t", "e", "s", "t">>),
    Str(<<" ", "a", "d", "m", "i", "n", " ">>), Str(<<"U", "S", "E", "R", "\n">>),
    Str(<<"t", "e", "s", "t", "\r">>), Str(<<"\f", "a", "\r">>),
    Str(<<"d", "u", "m", "m", "y">>), Str(<<"t", "e", "s", "t", "e", "r">>),
    Str(<<>>), Str(<<" ">>), Str(<<"a">>), Str(<<" ", "a", " ">>),
    Str(<<"A", "l">>), Str(<<"B", "o", "b">>),
    NoneVal, IntVal(<<"5">>), IntVal(<<"0">>) }

GoodName == Str(<<"B", "o", "b">>)
GoodEmail ==
    Str(<<"j", "a", "n", "e", ".", "d", "o", "e", "@",
          "e", "x", "a", "m", "p", "l", "e", ".", "o", "r", "g">>)
GoodPhone == Str(<<"4", "1", "5", "5", "5", "5", "2", "6", "7", "1">>)
BadEmail == Str(<<"t", "e", "s", "t", "@", "t", "e", "s", "t", ".", "c", "o", "m">>)
BadPhone == Str(Repeat("1", 10))

InitValidate ==
    /\ pc = "call"
    /\ text = Str(<<>>)
    /\ out = <<>>
    /\ matches = <<>>
    /\ out2 = <<>>
    /\ \/ name = GoodName /\ email \in EmailInputs /\ phone = GoodPhone
       \/ name = GoodName /\ email = GoodEmail /\ phone \in PhoneInputs
       \/ /\ name \in NameInputs
          /\ email \in {GoodEmail, BadEmail, NoneVal}
          /\ phone \in {GoodPhone, BadPhone, NoneVal}
    /\ emailOk = FALSE
    /\ phoneOk = FALSE
    /\ report = NoReport
    /\ grid = <<>>
    /\ outGrid = <<>>

DetectAnomalies ==
    /\ pc = "call"
    /\ report' = detect_anomalies(name, email, phone)
    /\ pc' = IF report'.raised THEN "raised" ELSE "detected"
    /\ UNCHANGED <<text, out, matches, out2, name, email, phone, emailOk, phoneOk,
                   grid, outGrid>>

ValidateFields ==
    /\ pc = "detected"
    /\ phoneOk' = is_valid_phone(phone)
    /\ emailOk' = is_valid_email(email)
    /\ pc' = "done"
    /\ UNCHANGED <<text, out, matches, out2, name, email, phone, report, grid, outGrid>>

NextValidate == DetectAnomalies \/ ValidateFields

SpecValidate == InitValidate /\ [][NextValidate]_vars

(***************************************************************************)
(* upload, lines 90-98: the CSV path.  grid is the file: a header and rows *)
(* of fields, a field being its text (empty when nothing stands between    *)
(* the commas).  pd.read_csv types each column: a column whose fields are  *)
(* all whole numbers is int64, one of whole numbers and empty fields is    *)
(* float64, any other is object (the texts); an empty field is NaN in      *)
(* every column.  astype(str) turns a cell into str(cell): "7" for the     *)
(* field "007", "123456.0" for a number in a float64 column, "nan" for     *)
(* NaN.  The fields pandas reads as missing by name ("NA", "nan", ...),    *)
(* decimal fractions, signs and booleans are not among the inputs.         *)
(***************************************************************************)
MaxRows == 2

NaN == [kind |-> "nan", chars |-> <<"n", "a", "n">>]

\* A float64 cell holding a whole number whose decimal digits are ds.
FloatVal(ds) == [kind |-> "float", chars |-> ds \o <<".", "0">>]

\* The decimal digits of int(field): leading zeros dropped.
RECURSIVE IntDigits(_)
IntDigits(f) == IF Len(f) > 1 /\ Head(f) = "0" THEN IntDigits(Tail(f)) ELSE f

IsIntField(f) == f # <<>> /\ \A k \in DOMAIN f : f[k] \in Digits

\* The dtype read_csv infers for column c of the rows.
ColumnKind(rows, c) ==
    LET fields == {rows[r][c] : r \in DOMAIN rows}
    IN  IF \A f \in fields : f = <<>> \/ IsIntField(f)
        THEN IF <<>> \in fields THEN "float64" ELSE "int64"
        ELSE "object"

\* The cell read_csv makes of a field in a column of the given dtype.
ReadCell(kind, f) ==
    IF f = <<>> THEN NaN
    ELSE IF kind = "int64" THEN IntVal(IntDigits(f))
    ELSE IF kind = "float64" THEN FloatVal(IntDigits(f))
    ELSE Str(f)

\* pd.read_csv(StringIO(...))
read_csv(file) ==
    [columns |-> file.columns,
     rows    |-> [r \in DOMAIN file.rows |->
                    [c \in DOMAIN file.rows[r] |->
                        ReadCell(ColumnKind(file.rows, c), file.rows[r][c])]]]

\* df[col].astype(str), one cell
astype_str(cell) == Str(cell.chars)

CsvColumns == <<<<"n", "a", "m", "e">>, <<"c", "o", "n", "t", "a", "c", "t">>>>

FieldInputs == {
    <<>>,
    <<"a">>,
    <<"x", "@", "y", ".", "c", "o", "m">>,
    <<"5", "5", "5", "1", "2", "3", "4">>,
    <<"1", "2", "3", "4", "5", "6">>,
    <<"0", "0", "7">> }

GridInputs ==
    {[columns |-> CsvColumns, rows |-> rs] :
        rs \in UNION {[1..n -> [1..Len(CsvColumns) -> FieldInputs]] : n \in 1..MaxRows}}

\* for col in df.columns: df[col] = df[col].astype(str).map(redact_text)
RedactGrid(df) ==
    [columns |-> df.columns,
     rows    |-> [r \in DOMAIN df.rows |->
                    [c \in DOMAIN df.rows[r] |->
                        Str(redact_text(astype_str(df.rows[r][c])))]]]

\* df.to_csv(index=False): the fields written, every cell now being a str.
to_csv(df) ==
    [columns |-> df.columns,
     rows    |-> [r \in DOMAIN df.rows |->
                    [c \in DOMAIN df.rows[r] |-> df.rows[r][c].chars]]]

InitCsv ==
    /\ pc = "call"
    /\ text = Str(<<>>)
    /\ out = <<>>
    /\ matches = <<>>
    /\ out2 = <<>>
    /\ name = GoodName
    /\ email = GoodEmail
    /\ phone = GoodPhone
    /\ emailOk = FALSE
    /\ phoneOk = FALSE
    /\ report = NoReport
    /\ grid \in GridInputs
    /\ outGrid = <<>>

UploadCsv ==
    /\ pc = "call"
    /\ outGrid' = to_csv(RedactGrid(read_csv(grid)))
    /\ pc' = "uploaded"
    /\ UNCHANGED <<text, out, matches, out2, name, email, phone, emailOk, phoneOk,
                   report, grid>>

NextCsv == UploadCsv

SpecCsv == InitCsv /\ [][NextCsv]_vars

(***************************************************************************)
(* Properties of the redactor                                              *)
(***************************************************************************)
Redacted == pc \in {"redacted", "again"}

\* The spans one category's pattern finds when it alone is applied to the
\* whole text (finditer): leftmost first, the scan resuming at each end.
RECURSIVE CategoryMatches(_, _, _)
CategoryMatches(cat, t, i) ==
    IF i >= Len(t) THEN <<>>
    ELSE LET e == CategoryEnd(cat, t, i)
         IN  IF e # -1
             THEN <<[start |-> i, end |-> e, cat |-> cat]>> \o CategoryMatches(cat, t, e)
             ELSE CategoryMatches(cat, t, i + 1)

Range(f) == {f[k] : k \in DOMAIN f}

Candidates(cat) == Range(CategoryMatches(cat, text.chars, 0))

Selected == Range(matches)

Overlap(a, b) == a.start < b.end /\ b.start < a.end

\* Position of a category in the priority order, 1 the highest.
Rank(cat) == CHOOSE k \in DOMAIN Categories : Categories[k] = cat

DigitCount(t, i, j) == Cardinality({k \in i..(j - 1) : IsDigit(t, k)})

\* The maximal digit runs of the text, as spans.
DigitRuns(t) ==
    {[start |-> i, end |-> i + Run(Digits, t, i)] :
        i \in {k \in 0..(Len(t) - 1) : IsDigit(t, k) /\ ~IsDigit(t, k - 1)}}

\* The text with every email span and every phone span of ms replaced by its
\* placeholder and every other character copied, from offset i on.
RECURSIVE Rebuild(_, _, _, _)
Rebuild(t, ms, k, i) ==
    IF k > Len(ms) THEN Slice(t, i, Len(t))
    ELSE Slice(t, i, ms[k].start)
            \o (CASE ms[k].cat = "email" -> REDACTED_EMAIL
                  [] ms[k].cat = "phone" -> REDACTED_PHONE
                  [] OTHER -> Slice(t, ms[k].start, ms[k].end))
            \o Rebuild(t, ms, k + 1, ms[k].end)

\* C1 (as claimed): redacting the output of redact_text again changes nothing.
Idempotent == pc = "again" => out2 = out

\* C2 (as claimed): a selected span has the highest priority among all the
\* candidate spans, of any category, that overlap it; selected spans are in
\* order and do not overlap.
PrecedenceOnOverlap ==
    Redacted =>
        /\ \A m \in Selected : \A k \in DOMAIN Categories :
              \A c \in Candidates(Categories[k]) :
                 Overlap(m, c) => Rank(m.cat) <= k
        /\ \A k \in 1..(Len(matches) - 1) : matches[k].end <= matches[k + 1].start

\* C3 (as claimed): no span the SSN, date-of-birth or card rule finds on its
\* own overlaps a span replaced by a placeholder.
DetectOnlyNeverMasked ==
    Redacted =>
        \A cat \in {"ssn", "dob", "cc"} : \A c \in Candidates(cat) :
            \A m \in Selected : m.cat \in {"email", "phone"} => ~Overlap(m, c)

\* C4 (as claimed): a replaced phone span has 7 to 18 characters and at least
\* 7 digits; no digit run of length 6 and none of length 20 or more is replaced.
PhoneSpanSizeClaimed ==
    Redacted =>
        \A m \in Selected : m.cat = "phone" =>
            /\ m.end - m.start \in 7..18
            /\ DigitCount(text.chars, m.start, m.end) >= 7
            /\ \A r \in DigitRuns(text.chars) :
                  (r.end - r.start = 6 \/ r.end - r.start >= 20) => ~Overlap(m, r)

\* C4 (amended): a replaced phone span has 7 to 41 characters and 7 to 22
\* digits (so a run of 6 digits is never replaced on its own), and no digit
\* run of 23 or more digits is replaced.
PhoneSpanSize ==
    Redacted =>
        \A m \in Selected : m.cat = "phone" =>
            /\ m.end - m.start \in 7..41
            /\ DigitCount(text.chars, m.start, m.end) \in 7..22
            /\ \A r \in DigitRuns(text.chars) :
                  r.end - r.start >= 23 => ~Overlap(m, r)

\* A phone span of the largest size (41 characters, 22 digits) was replaced.
PhoneSpanSizeWitness ==
    /\ Redacted
    /\ \E m \in Selected :
          /\ m.cat = "phone"
          /\ m.end - m.start = 41
          /\ DigitCount(text.chars, m.start, m.end) = 22

\* C10: the output is the text with the selected email and phone spans
\* replaced by their placeholders and everything else copied in order; with
\* no such span selected the output is the text.
VerbatimOutsideSpans ==
    Redacted =>
        /\ out = Rebuild(text.chars, matches, 1, 0)
        /\ (\A m \in Selected : m.cat \notin {"email", "phone"}) => out = text.chars

\* A text in which a detect-only span and a masked span were both selected,
\* with characters between them.
VerbatimOutsideSpansWitness ==
    /\ Redacted
    /\ \E m \in Selected : m.cat \in {"ssn", "dob", "cc"}
    /\ \E m \in Selected : m.cat \in {"email", "phone"}
    /\ \E k \in 1..(Len(matches) - 1) : matches[k].end < matches[k + 1].start

(***************************************************************************)
(* Properties of the anomaly classifier                                    *)
(***************************************************************************)
\* The value as the claims read it: the text of a str, nothing otherwise.
TextOf(v) == IF v.kind = "str" THEN v.chars ELSE <<>>

\* C5 (as claimed): is_valid_email is true exactly of a value that as a whole
\* has the email shape with a single "@", a local part of 1..64 and a domain
\* of 1..255 characters, is not a placeholder address, has more than 2
\* distinct characters in a local part longer than 3, and whose domain has at
\* least 2 labels, the last alphabetic and of length >= 2.
EmailClaim(v) ==
    LET s      == TextOf(v)
        at     == LastIndex(s, "@")
        local  == Slice(s, 0, at)
        domain == Slice(s, at + 1, Len(s))
        labelStart == LastIndex(domain, ".") + 1
        last   == Slice(domain, labelStart, Len(domain))
    IN  /\ v.kind = "str"
        /\ EMAIL_RE(s, 0) = Len(s)
        /\ Cardinality({k \in DOMAIN s : s[k] = "@"}) = 1
        /\ Len(local) \in 1..64
        /\ Len(domain) \in 1..255
        /\ Lower(s) \notin suspicious_patterns
        /\ Len(local) > 3 =>
              Cardinality(CharSet(local) \ {".", "_", "-"}) > 2
        /\ labelStart >= 1
        /\ Len(last) >= 2
        /\ \A k \in DOMAIN last : last[k] \in Alpha

EmailValidIffWholeValue == pc = "done" => (emailOk <=> EmailClaim(email))

\* C6: is_valid_phone is true exactly when the digits d of the value number
\* 7 to 15, are not one repeated digit, are not over their whole length a run
\* rising by 1 or a run falling by 1, and are not in the denylist.
PhoneClaim(v) ==
    LET d == ExtractDigits(TextOf(v))
    IN  /\ 7 <= Len(d) /\ Len(d) <= 15
        /\ \E k \in DOMAIN d : d[k] # d[1]
        /\ \E k \in 2..Len(d) : DigitValue(d[k]) # DigitValue(d[k - 1]) + 1
        /\ \E k \in 2..Len(d) : DigitValue(d[k]) # DigitValue(d[k - 1]) - 1
        /\ d \notin {Repeat(c, 10) : c \in Digits}
        /\ d # AscRun(1, 9) \o <<"0">>
        /\ d # <<"0">> \o DescRun(9, 9)

PhoneValidIff == pc = "done" => (phoneOk <=> PhoneClaim(phone))

\* A phone written with non-digit characters was found valid.
PhoneValidIffWitness ==
    /\ pc = "done"
    /\ phoneOk
    /\ \E k \in DOMAIN phone.chars : phone.chars[k] \notin Digits

\* C7: called with a name that is a str, detect_anomalies returns a report
\* that holds one entry per failed check, in the order email, phone,
\* name-length, name-denylist, each with its field and the raw value;
\* has_anomaly is true exactly when there is an entry.
ExpectedEntries ==
    LET nm == TextOf(name)
    IN  (IF ~is_valid_email(email) THEN <<<<"email", email>>>> ELSE <<>>)
     \o (IF ~is_valid_phone(phone) THEN <<<<"phone", phone>>>> ELSE <<>>)
     \o (IF nm = <<>> \/ Len(Strip(nm)) < 2 THEN <<<<"name", name>>>> ELSE <<>>)
     \o (IF Lower(Strip(nm)) \in suspicious_names THEN <<<<"name", name>>>> ELSE <<>>)

AnomalyReportInOrder ==
    (pc # "call" /\ name.kind = "str") =>
        /\ pc \in {"detected", "done"}
        /\ [k \in DOMAIN report.anomaly_details |->
               <<report.anomaly_details[k].field, report.anomaly_details[k].value>>]
              = ExpectedEntries
        /\ report.has_anomaly <=> report.anomaly_details # <<>>

\* The aggregation scenario: a report of three entries, email, phone, name.
AnomalyReportInOrderWitness ==
    /\ pc \in {"detected", "done"}
    /\ Len(report.anomaly_details) = 3
    /\ [k \in 1..3 |-> report.anomaly_details[k].field] = <<"email", "phone", "name">>
    /\ report.has_anomaly

\* C8 (as claimed): no call raises, whatever the values handed in.
NeverRaises == pc # "raised"

(***************************************************************************)
(* Properties of the CSV path                                              *)
(***************************************************************************)
\* C9 (as claimed): the grid keeps its columns and its shape, a non-empty
\* field becomes redact_text of its text and an empty field stays empty.
CsvKeepsGrid ==
    pc = "uploaded" =>
        /\ outGrid.columns = grid.columns
        /\ DOMAIN outGrid.rows = DOMAIN grid.rows
        /\ \A r \in DOMAIN grid.rows :
              /\ DOMAIN outGrid.rows[r] = DOMAIN grid.rows[r]
              /\ \A c \in DOMAIN grid.rows[r] :
                    IF grid.rows[r][c] = <<>>
                    THEN outGrid.rows[r][c] = <<>>
                    ELSE outGrid.rows[r][c] = redact_text(Str(grid.rows[r][c]))

====
